---- MODULE Spec2Model ----
(***************************************************************************)
(* A model of habit_tracker_updated.py: the persisted habit store, the     *)
(* completion commands, the reminder reconciliation and the gateways of    *)
(* the timer, reminder and formatter services.                             *)
(*                                                                         *)
(* Representation.                                                         *)
(*  - A Python str is a sequence of one-character strings, so that lower,  *)
(*    strip, split and the substring test are computed and not assumed.    *)
(*  - A JSON value is a record whose field names tell its Python type:     *)
(*      [str |-> d]                    the date string of day number d     *)
(*      [none |-> TRUE]                None / null                         *)
(*      [date |-> v, duration |-> u]   a dict with a date and a duration   *)
(*      [totalSeconds |-> n, formatted |-> s]   the timer's elapsedTime    *)
(*  - A dict of habits is a sequence of [name, entries] with distinct      *)
(*    names: Python dicts keep insertion order and the code depends on it  *)
(*    (numbered selection, first match).                                   *)
(*  - The file habits.json is the sequence of tokens json.dump writes.     *)
(***************************************************************************)
EXTENDS Integers, Sequences, FiniteSets, TLC

VARIABLES file, today, reminders, call

vars == <<file, today, reminders, call>>

(***************************************************************************)
(* Bounds of the model.                                                    *)
(***************************************************************************)
MaxDay == 2
MaxEntries == 2
MaxHabits == 2
MaxReminders == 1

(***************************************************************************)
(* Python str operations.                                                  *)
(***************************************************************************)
UpperChars == <<"A", "B", "C", "D", "E", "F", "G", "H", "I", "J", "K", "L", "M",
                "N", "O", "P", "Q", "R", "S", "T", "U", "V", "W", "X", "Y", "Z">>
LowerChars == <<"a", "b", "c", "d", "e", "f", "g", "h", "i", "j", "k", "l", "m",
                "n", "o", "p", "q", "r", "s", "t", "u", "v", "w", "x", "y", "z">>

\* str.lower() on one character.
LowerChar(c) ==
    IF \E i \in 1..Len(UpperChars) : UpperChars[i] = c
    THEN LowerChars[CHOOSE i \in 1..Len(UpperChars) : UpperChars[i] = c]
    ELSE c

\* str.lower()
Lower(s) == [i \in 1..Len(s) |-> LowerChar(s[i])]

\* c in s, for a one-character c
HasChar(s, c) == \E i \in 1..Len(s) : s[i] = c

\* sub in s: the substring test of Python's `in` on two strs
Contains(s, sub) ==
    \E i \in 0..(Len(s) - Len(sub)) :
        \A j \in 1..Len(sub) : s[i + j] = sub[j]

RECURSIVE LStrip(_)
LStrip(s) == IF s # <<>> /\ Head(s) = " " THEN LStrip(Tail(s)) ELSE s

RECURSIVE RStrip(_)
RStrip(s) ==
    IF s # <<>> /\ s[Len(s)] = " " THEN RStrip(SubSeq(s, 1, Len(s) - 1)) ELSE s

\* str.strip()
Strip(s) == RStrip(LStrip(s))

\* The index of the first occurrence of c in s, 0 when there is none.
RECURSIVE FindFrom(_, _, _)
FindFrom(s, c, i) ==
    IF i > Len(s) THEN 0
    ELSE IF s[i] = c THEN i
    ELSE FindFrom(s, c, i + 1)

Find(s, c) == FindFrom(s, c, 1)

\* s.split(c): the pieces between the occurrences of c, in order.
RECURSIVE Split(_, _)
Split(s, c) ==
    LET k == Find(s, c)
    IN  IF k = 0 THEN <<s>>
        ELSE <<SubSeq(s, 1, k - 1)>> \o Split(SubSeq(s, k + 1, Len(s)), c)

\* s.split(c, 1): split at the first occurrence of c only.
Split1(s, c) ==
    LET k == Find(s, c)
    IN  IF k = 0 THEN <<s>>
        ELSE <<SubSeq(s, 1, k - 1), SubSeq(s, k + 1, Len(s))>>

\* x in list
InSeq(x, S) == \E i \in 1..Len(S) : S[i] = x

NoDuplicates(S) == \A i, j \in 1..Len(S) : S[i] = S[j] => i = j

(***************************************************************************)
(* JSON values of the store.                                               *)
(***************************************************************************)
None == [none |-> TRUE]

\* str(date.today()) for day number d
DateStr(d) == [str |-> d]

IsStr(v) == "str" \in DOMAIN v

\* isinstance(entry, dict)
IsDict(v) == ~IsStr(v) /\ "none" \notin DOMAIN v

\* entry.get('date')
GetDate(e) == IF "date" \in DOMAIN e THEN e.date ELSE None

\* {'date': d, 'duration': u}
Entry(d, u) == [date |-> d, duration |-> u]

\* The elapsedTime payloads of the timer service used in the model.
Elapsed1 == [totalSeconds |-> 60, formatted |-> <<"1">>]
Elapsed2 == [totalSeconds |-> 120, formatted |-> <<"2">>]

\* dict operations on the ordered dict of habits
Keys(data) == [i \in 1..Len(data) |-> data[i].name]

HasKey(data, n) == \E i \in 1..Len(data) : data[i].name = n

IndexOf(data, n) == CHOOSE i \in 1..Len(data) : data[i].name = n

\* data[n]
Get(data, n) == data[IndexOf(data, n)].entries

\* data[n] = v: replaces in place, or appends a new key at the end
Put(data, n, v) ==
    IF HasKey(data, n)
    THEN [data EXCEPT ![IndexOf(data, n)].entries = v]
    ELSE Append(data, [name |-> n, entries |-> v])

\* the dict after data.pop(n)
Pop(data, n) ==
    LET k == IndexOf(data, n)
    IN  SubSeq(data, 1, k - 1) \o SubSeq(data, k + 1, Len(data))

(***************************************************************************)
(* habits.json: json.dump and json.load over tokens.                       *)
(***************************************************************************)
RECURSIVE DumpItems(_)
DumpItems(entries) ==
    IF entries = <<>> THEN <<>>
    ELSE <<[item |-> Head(entries)]>> \o DumpItems(Tail(entries))

RECURSIVE DumpHabits(_)
DumpHabits(data) ==
    IF data = <<>> THEN <<>>
    ELSE <<[key |-> Head(data).name]>> \o DumpItems(Head(data).entries)
         \o <<[endlist |-> TRUE]>> \o DumpHabits(Tail(data))

\* The tokens json.dump(data, f) writes, in order.
JsonDump(data) == DumpHabits(data) \o <<[enddoc |-> TRUE]>>

\* json.load: the dict the tokens spell. A document cut short does not
\* parse (JSONDecodeError).
RECURSIVE ParseFrom(_, _, _)
ParseFrom(toks, i, acc) ==
    IF i > Len(toks) THEN [ok |-> FALSE, data |-> <<>>]
    ELSE IF "enddoc" \in DOMAIN toks[i]
         THEN [ok |-> (i = Len(toks)) /\ (acc = <<>> \/ acc[Len(acc)].closed),
               data |-> [k \in 1..Len(acc) |->
                            [name |-> acc[k].name, entries |-> acc[k].entries]]]
    ELSE IF "key" \in DOMAIN toks[i]
         THEN IF acc # <<>> /\ ~acc[Len(acc)].closed
              THEN [ok |-> FALSE, data |-> <<>>]
              ELSE ParseFrom(toks, i + 1,
                     Append(acc, [name |-> toks[i].key, entries |-> <<>>,
                                  closed |-> FALSE]))
    ELSE IF acc = <<>> \/ acc[Len(acc)].closed
         THEN [ok |-> FALSE, data |-> <<>>]
    ELSE IF "item" \in DOMAIN toks[i]
         THEN ParseFrom(toks, i + 1,
                [acc EXCEPT ![Len(acc)].entries = Append(@, toks[i].item)])
    ELSE ParseFrom(toks, i + 1, [acc EXCEPT ![Len(acc)].closed = TRUE])

JsonLoad(toks) == ParseFrom(toks, 1, <<>>)

\* A mutant of MigrateEntries: every element of every list is wrapped.
MigrateEverything(entries) ==
    [i \in 1..Len(entries) |-> Entry(entries[i], None)]

\* The migration loop of load_data: a list whose FIRST element is a str is
\* rebuilt whole, every element d becoming {'date': d, 'duration': None}.
MigrateEntries(entries) ==
    IF entries # <<>> /\ IsStr(entries[1])
    THEN [i \in 1..Len(entries) |-> Entry(entries[i], None)]
    ELSE entries

Migrate(data) ==
    [k \in 1..Len(data) |->
        [name |-> data[k].name, entries |-> MigrateEntries(data[k].entries)]]

\* load_data(): no file is the empty dict; a file that does not parse raises.
load_data(f) ==
    IF ~f.exists THEN [raised |-> FALSE, data |-> <<>>]
    ELSE LET p == JsonLoad(f.tokens)
         IN  IF ~p.ok THEN [raised |-> TRUE, data |-> <<>>]
             ELSE [raised |-> FALSE, data |-> Migrate(p.data)]

\* save_data(data) when the first n tokens reach the file: open(.., "w")
\* truncates the file, json.dump then writes token after token.
save_data(data, n) ==
    [exists |-> TRUE, tokens |-> SubSeq(JsonDump(data), 1, n)]

\* save_data(data) when every write succeeds.
Saved(data) == save_data(data, Len(JsonDump(data)))

NoFile == [exists |-> FALSE, tokens |-> <<>>]

(***************************************************************************)
(* Service gateways. A response is a timeout, or a status with a body; a   *)
(* body is not JSON at all, a JSON array, or a JSON object (a record of    *)
(* the keys it has). The try block of a gateway ends in a value or in an   *)
(* exception, which the except clause turns into the fallback.             *)
(***************************************************************************)
Timeout == [timeout |-> TRUE]

Http(status, body) == [timeout |-> FALSE, status |-> status, body |-> body]

NotJson == [notjson |-> TRUE]

JsonArray(xs) == [array |-> xs]

IsJson(b) == "notjson" \notin DOMAIN b

IsObject(b) == IsJson(b) /\ "array" \notin DOMAIN b

Ok(v) == [exc |-> "none", val |-> v]

Raise(e) == [exc |-> e]

\* requests.get/post/delete(..., timeout=2) followed by response.json() and
\* the first result.get(...): the exception raised, "none" when there is none.
JsonObjectError(r) ==
    IF r.timeout THEN "Timeout"
    ELSE IF ~IsJson(r.body) THEN "JSONDecodeError"
    ELSE IF ~IsObject(r.body) THEN "AttributeError"
    ELSE "none"

\* result.get('success') as a condition
SuccessTruthy(b) == "success" \in DOMAIN b /\ b.success

\* result.get('success', False)
SuccessOrFalse(b) == IF "success" \in DOMAIN b THEN b.success ELSE FALSE

\* A mutant of Catch: `except requests.Timeout:` in place of the bare except.
CatchTimeoutOnly(t, fallback) ==
    IF t.exc = "none" THEN [raised |-> FALSE, ret |-> t.val]
    ELSE [raised |-> t.exc # "Timeout", ret |-> fallback]

\* try: ... except: return fallback (a bare except catches everything)
Catch(t, fallback) ==
    IF t.exc = "none" THEN [raised |-> FALSE, ret |-> t.val]
    ELSE [raised |-> FALSE, ret |-> fallback]

\* check_timer_service, check_reminder_service, check_formatter_service
check_service(r) ==
    Catch(IF r.timeout THEN Raise("Timeout") ELSE Ok(r.status = 200), FALSE)

\* Python truthiness of a timer id or an elapsedTime payload: None, 0 and the
\* empty dict are false.
Falsy(v) == v = None \/ v = [num |-> 0] \/ v = [empty |-> TRUE]

start_timer(r) ==
    Catch(IF JsonObjectError(r) # "none" THEN Raise(JsonObjectError(r))
          ELSE IF SuccessTruthy(r.body)
               THEN IF "timer" \in DOMAIN r.body /\ "id" \in DOMAIN r.body.timer
                    THEN Ok(r.body.timer.id)
                    ELSE Raise("KeyError")
          ELSE Ok(None),
          None)

stop_timer(r) ==
    Catch(IF JsonObjectError(r) # "none" THEN Raise(JsonObjectError(r))
          ELSE IF SuccessTruthy(r.body)
               THEN IF "timer" \in DOMAIN r.body
                       /\ "elapsedTime" \in DOMAIN r.body.timer
                    THEN Ok(r.body.timer.elapsedTime)
                    ELSE Raise("KeyError")
          ELSE Ok(None),
          None)

create_timed_reminder(r) ==
    Catch(IF JsonObjectError(r) # "none" THEN Raise(JsonObjectError(r))
          ELSE Ok(SuccessOrFalse(r.body)),
          FALSE)

\* One leg of create_daily_reminder:
\* response.json().get('success', False) if response.status_code == 201 else False
LegOk(r) ==
    IF r.status # 201 THEN Ok(FALSE)
    ELSE IF JsonObjectError(r) # "none" THEN Raise(JsonObjectError(r))
    ELSE Ok(SuccessOrFalse(r.body))

\* create_daily_reminder: both requests are sent, then both are read.
create_daily_reminder(r1, r2) ==
    Catch(IF r1.timeout \/ r2.timeout THEN Raise("Timeout")
          ELSE IF LegOk(r1).exc # "none" THEN LegOk(r1)
          ELSE IF LegOk(r2).exc # "none" THEN LegOk(r2)
          ELSE Ok(LegOk(r1).val \/ LegOk(r2).val),
          FALSE)

get_all_reminders(r) ==
    Catch(IF r.timeout THEN Raise("Timeout")
          ELSE IF r.status = 200
               THEN IF IsJson(r.body) THEN Ok(r.body) ELSE Raise("JSONDecodeError")
          ELSE Ok(JsonArray(<<>>)),
          JsonArray(<<>>))

delete_reminder(r) ==
    Catch(IF JsonObjectError(r) # "none" THEN Raise(JsonObjectError(r))
          ELSE Ok(SuccessOrFalse(r.body)),
          FALSE)

delete_all_fired_reminders(r) ==
    Catch(IF JsonObjectError(r) # "none" THEN Raise(JsonObjectError(r))
          ELSE Ok(<<SuccessOrFalse(r.body),
                    IF "deletedCount" \in DOMAIN r.body
                    THEN r.body.deletedCount ELSE 0>>),
          <<FALSE, 0>>)

\* format_text(text) once the request is made (text is not blank).
format_text(text, r) ==
    Catch(IF JsonObjectError(r) # "none" THEN Raise(JsonObjectError(r))
          ELSE IF SuccessTruthy(r.body)
               THEN IF "formatted" \in DOMAIN r.body
                    THEN Ok(r.body.formatted)
                    ELSE Raise("KeyError")
          ELSE Ok(text),
          text)

\* `not text or not text.strip()`: format_text returns text without a request.
Blank(text) == text = <<>> \/ Strip(text) = <<>>

(***************************************************************************)
(* Reminder reconciliation.                                                *)
(***************************************************************************)
StripEach(parts) == [i \in 1..Len(parts) |-> Strip(parts[i])]

\* A mutant of extract_habits_from_reminder: split(':') in place of
\* split(':', 1), keeping what follows the LAST colon.
extract_after_last_colon(message) ==
    IF HasChar(message, ":")
    THEN LET parts == Split(message, ":")
             habit_part == Strip(parts[Len(parts)])
         IN  IF HasChar(habit_part, ",")
             THEN StripEach(Split(habit_part, ","))
             ELSE <<habit_part>>
    ELSE <<>>

extract_habits_from_reminder(message) ==
    IF HasChar(message, ":")
    THEN LET parts == Split1(message, ":")
         IN  IF Len(parts) = 2
             THEN LET habit_part == Strip(parts[2])
                  IN  IF HasChar(habit_part, ",")
                      THEN StripEach(Split(habit_part, ","))
                      ELSE <<habit_part>>
             ELSE <<>>
    ELSE <<>>

\* do_reminded_habit: all_habits, the candidates of every fired message
RECURSIVE AllHabits(_)
AllHabits(fired_reminders) ==
    IF fired_reminders = <<>> THEN <<>>
    ELSE extract_habits_from_reminder(Head(fired_reminders))
         \o AllHabits(Tail(fired_reminders))

\* do_reminded_habit: unique_habits, `if h and h not in unique_habits`
RECURSIVE UniqueFrom(_, _)
UniqueFrom(all_habits, unique) ==
    IF all_habits = <<>> THEN unique
    ELSE LET h == Head(all_habits)
         IN  UniqueFrom(Tail(all_habits),
                        IF h # <<>> /\ ~InSeq(h, unique)
                        THEN Append(unique, h) ELSE unique)

UniqueHabits(all_habits) == UniqueFrom(all_habits, <<>>)

\* The inner loop of the match: the first key equal in lowercase, then break.
RECURSIVE FirstActual(_, _, _)
FirstActual(reminded, keys, i) ==
    IF i > Len(keys) THEN <<>>
    ELSE IF Lower(reminded) = Lower(keys[i]) THEN <<keys[i]>>
    ELSE FirstActual(reminded, keys, i + 1)

\* do_reminded_habit: matched_habits
RECURSIVE MatchedHabits(_, _)
MatchedHabits(unique_habits, keys) ==
    IF unique_habits = <<>> THEN <<>>
    ELSE FirstActual(Head(unique_habits), keys, 1)
         \o MatchedHabits(Tail(unique_habits), keys)

\* reminder.get('fired', False) and reminder.get('message', '')
GetFired(r) == IF "fired" \in DOMAIN r THEN r.fired ELSE FALSE

GetMessage(r) == IF "message" \in DOMAIN r THEN r.message ELSE <<>>

\* The inner loop of get_fired_habit_reminders: contains_habit
ContainsHabit(message, habit_names) ==
    \E i \in 1..Len(habit_names) :
        Contains(Lower(message), Lower(habit_names[i]))

\* A mutant of FiredLoop: the fired flag is not tested.
RECURSIVE FiredLoopAnyFlag(_, _)
FiredLoopAnyFlag(rems, habit_names) ==
    IF rems = <<>> THEN <<>>
    ELSE (IF ContainsHabit(GetMessage(Head(rems)), habit_names)
          THEN <<GetMessage(Head(rems))>> ELSE <<>>)
         \o FiredLoopAnyFlag(Tail(rems), habit_names)

\* The loop of get_fired_habit_reminders over the reminders.
RECURSIVE FiredLoop(_, _)
FiredLoop(rems, habit_names) ==
    IF rems = <<>> THEN <<>>
    ELSE (IF GetFired(Head(rems))
             /\ ContainsHabit(GetMessage(Head(rems)), habit_names)
          THEN <<GetMessage(Head(rems))>> ELSE <<>>)
         \o FiredLoop(Tail(rems), habit_names)

\* get_fired_habit_reminders(), given what get_all_reminders() returned: an
\* empty answer, an empty store, or any exception (a store that does not
\* load, an answer that is no list of dicts) gives [].
get_fired_habit_reminders(got, f) ==
    IF ~IsJson(got) \/ IsObject(got) THEN <<>>
    ELSE IF got.array = <<>> THEN <<>>
    ELSE IF load_data(f).raised THEN <<>>
    ELSE IF load_data(f).data = <<>> THEN <<>>
    ELSE FiredLoop(got.array, Keys(load_data(f).data))

(***************************************************************************)
(* Commands. Each command is an operator from the loaded dict and the      *)
(* user's inputs to its outcome, the dict it leaves and whether it called  *)
(* save_data.                                                              *)
(***************************************************************************)
DigitChars == <<"0", "1", "2", "3", "4", "5", "6", "7", "8", "9">>

\* str.isdigit()
IsDigits(s) ==
    /\ s # <<>>
    /\ \A i \in 1..Len(s) : \E k \in 1..Len(DigitChars) : DigitChars[k] = s[i]

DigitValue(c) == (CHOOSE k \in 1..Len(DigitChars) : DigitChars[k] = c) - 1

\* int(s) for a str of digits
RECURSIVE IntOf(_)
IntOf(s) ==
    IF s = <<>> THEN 0
    ELSE IntOf(SubSeq(s, 1, Len(s) - 1)) * 10 + DigitValue(s[Len(s)])

\* resolve_choice(data, choice); the empty str stands for None as well, the
\* callers test `not name` only.
resolve_choice(data, choice) ==
    IF choice = <<>> THEN <<>>
    ELSE IF IsDigits(choice)
         THEN IF 0 <= IntOf(choice) - 1 /\ IntOf(choice) - 1 < Len(data)
              THEN Keys(data)[IntOf(choice)]
              ELSE <<>>
    ELSE choice

\* select_habit(prompt): (None, None) when there is no habit.
select_habit(data, choice) ==
    IF data = <<>> THEN <<>> ELSE resolve_choice(data, choice)

\* any(entry.get('date') == today for entry in entries if isinstance(entry, dict))
CompletedToday(entries, d) ==
    \E i \in 1..Len(entries) :
        IsDict(entries[i]) /\ GetDate(entries[i]) = DateStr(d)

Result(outcome, data, save) == [outcome |-> outcome, data |-> data, save |-> save]

\* A mutant of AppendEntry: the entry goes to the front of the list.
PrependEntry(data, name, entry) ==
    Put(data, name, <<entry>> \o Get(data, name))

\* data[name].append(entry)
AppendEntry(data, name, entry) ==
    Put(data, name, Append(Get(data, name), entry))

\* A mutant of add_habit: the `formatted_name in data` test is missing.
add_habit_reset(data, name, formatted_name) ==
    IF name = <<>> THEN Result("Cancelled", data, FALSE)
    ELSE Result("Added", Put(data, formatted_name, <<>>), TRUE)

\* add_habit, after format_text gave formatted_name
add_habit(data, name, formatted_name) ==
    IF name = <<>> THEN Result("Cancelled", data, FALSE)
    ELSE IF HasKey(data, formatted_name)
         THEN Result("DuplicateName", data, FALSE)
    ELSE Result("Added", Put(data, formatted_name, <<>>), TRUE)

\* A mutant of mark_habit: the "already completed today" test is missing.
mark_habit_unchecked(data, name, d) ==
    IF name = <<>> THEN Result("Cancelled", data, FALSE)
    ELSE IF ~HasKey(data, name) THEN Result("NotFound", data, FALSE)
    ELSE Result("Marked", AppendEntry(data, name, Entry(DateStr(d), None)), TRUE)

mark_habit(data, name, d) ==
    IF name = <<>> THEN Result("Cancelled", data, FALSE)
    ELSE IF ~HasKey(data, name) THEN Result("NotFound", data, FALSE)
    ELSE IF CompletedToday(Get(data, name), d)
         THEN Result("AlreadyCompleted", data, FALSE)
    ELSE Result("Marked", AppendEntry(data, name, Entry(DateStr(d), None)), TRUE)

\* timed_habit: up is check_timer_service(), again the answer to "track
\* another session anyway?", timer_id and elapsed what start_timer and
\* stop_timer returned.
timed_habit(data, name, d, up, again, timer_id, elapsed) ==
    IF ~up THEN Result("ServiceUnavailable", data, FALSE)
    ELSE IF name = <<>> THEN Result("Cancelled", data, FALSE)
    ELSE IF ~HasKey(data, name) THEN Result("NotFound", data, FALSE)
    ELSE IF CompletedToday(Get(data, name), d) /\ ~again
         THEN Result("AlreadyCompleted", data, FALSE)
    ELSE IF Falsy(timer_id) THEN Result("StartFailed", data, FALSE)
    ELSE IF Falsy(elapsed)
         THEN Result("MarkedUntimed",
                     AppendEntry(data, name, Entry(DateStr(d), None)), TRUE)
    ELSE Result("MarkedTimed",
                AppendEntry(data, name, Entry(DateStr(d), elapsed)), TRUE)

\* A mutant of edit_habit: the `formatted_new in data` test is missing.
edit_habit_unchecked(data, old, new, formatted_new) ==
    IF old = <<>> THEN Result("Cancelled", data, FALSE)
    ELSE IF ~HasKey(data, old) THEN Result("NotFound", data, FALSE)
    ELSE IF new = <<>> \/ new = old THEN Result("Unchanged", data, FALSE)
    ELSE Result("Renamed",
                Put(Pop(data, old), formatted_new, Get(data, old)), TRUE)

\* A mutant of edit_habit: the new key starts from an empty list.
edit_habit_empty(data, old, new, formatted_new) ==
    IF old = <<>> THEN Result("Cancelled", data, FALSE)
    ELSE IF ~HasKey(data, old) THEN Result("NotFound", data, FALSE)
    ELSE IF new = <<>> \/ new = old THEN Result("Unchanged", data, FALSE)
    ELSE IF HasKey(data, formatted_new)
         THEN Result("DuplicateName", data, FALSE)
    ELSE Result("Renamed", Put(Pop(data, old), formatted_new, <<>>), TRUE)

\* edit_habit, after format_text gave formatted_new
edit_habit(data, old, new, formatted_new) ==
    IF old = <<>> THEN Result("Cancelled", data, FALSE)
    ELSE IF ~HasKey(data, old) THEN Result("NotFound", data, FALSE)
    ELSE IF new = <<>> \/ new = old THEN Result("Unchanged", data, FALSE)
    ELSE IF HasKey(data, formatted_new)
         THEN Result("DuplicateName", data, FALSE)
    ELSE Result("Renamed",
                Put(Pop(data, old), formatted_new, Get(data, old)), TRUE)

\* A mutant of remove_habit: the DELETE prompt is missing.
remove_habit_unconfirmed(data, name, sure, typed) ==
    IF name = <<>> THEN Result("Cancelled", data, FALSE)
    ELSE IF ~HasKey(data, name) THEN Result("NotFound", data, FALSE)
    ELSE IF ~sure THEN Result("Cancelled", data, FALSE)
    ELSE Result("Removed", Pop(data, name), TRUE)

\* remove_habit: sure is the y/yes answer, typed the line typed at the
\* DELETE prompt.
remove_habit(data, name, sure, typed) ==
    IF name = <<>> THEN Result("Cancelled", data, FALSE)
    ELSE IF ~HasKey(data, name) THEN Result("NotFound", data, FALSE)
    ELSE IF ~sure THEN Result("Cancelled", data, FALSE)
    ELSE IF typed # <<"D", "E", "L", "E", "T", "E">>
         THEN Result("Cancelled", data, FALSE)
    ELSE Result("Removed", Pop(data, name), TRUE)

\* do_reminded_habit: the habit picked among matched_habits, <<>> when the
\* number typed is invalid.
PickMatched(matched_habits, habit_choice) ==
    IF Len(matched_habits) = 1 THEN matched_habits[1]
    ELSE IF ~IsDigits(habit_choice) THEN <<>>
    ELSE IF 0 <= IntOf(habit_choice) - 1
            /\ IntOf(habit_choice) - 1 < Len(matched_habits)
         THEN matched_habits[IntOf(habit_choice)]
    ELSE <<>>

\* do_reminded_habit(fired_reminders): option is the menu choice, up,
\* timer_id and elapsed the timer gateways' results. cleanup tells whether
\* the flow reaches the "Clear fired reminders" prompt.
do_reminded_habit(data, fired_reminders, option, habit_choice, d, up, timer_id, elapsed) ==
    LET unique_habits == UniqueHabits(AllHabits(fired_reminders))
        matched_habits == MatchedHabits(unique_habits, Keys(data))
        habit_name == PickMatched(matched_habits, habit_choice)
        Out(outcome, newdata, save, cleanup) ==
            [outcome |-> outcome, data |-> newdata, save |-> save,
             cleanup |-> cleanup, name |-> habit_name]
        Stop(outcome) ==
            [outcome |-> outcome, data |-> data, save |-> FALSE,
             cleanup |-> FALSE, name |-> <<>>]
    IN  IF unique_habits = <<>> THEN Stop("NoCandidates")
        ELSE IF matched_habits = <<>> THEN Stop("NoMatch")
        ELSE IF option \notin {<<"1">>, <<"2">>} THEN Stop("Cancelled")
        ELSE IF habit_name = <<>> THEN Stop("InvalidChoice")
        ELSE IF option = <<"1">>
             THEN IF CompletedToday(Get(data, habit_name), d)
                  THEN Out("AlreadyCompleted", data, FALSE, TRUE)
                  ELSE Out("Marked",
                           AppendEntry(data, habit_name, Entry(DateStr(d), None)),
                           TRUE, TRUE)
        ELSE IF ~up
             THEN IF ~CompletedToday(Get(data, habit_name), d)
                  THEN Out("Marked",
                           AppendEntry(data, habit_name, Entry(DateStr(d), None)),
                           TRUE, FALSE)
                  ELSE Out("AlreadyCompleted", data, FALSE, FALSE)
        ELSE IF Falsy(timer_id) THEN Out("StartFailed", data, FALSE, FALSE)
        ELSE IF ~Falsy(elapsed)
             THEN Out("MarkedTimed",
                      AppendEntry(data, habit_name, Entry(DateStr(d), elapsed)),
                      TRUE, TRUE)
        ELSE Out("MarkedUntimed",
                 AppendEntry(data, habit_name, Entry(DateStr(d), None)),
                 TRUE, TRUE)

\* "⏰ Time to do your habit: " ("@" stands for the clock character)
ReminderPrefix ==
    <<"@", " ", "T", "i", "m", "e", " ", "t", "o", " ", "d", "o", " ",
      "y", "o", "u", "r", " ", "h", "a", "b", "i", "t", ":", " ">>

\* f"⏰ Time to do your habit: {name}"
ReminderMessage(name) == ReminderPrefix \o name

(***************************************************************************)
(* The command loop: one action per command of main(), each loading the    *)
(* store, running the command and saving; the writes of save_data succeed  *)
(* here. The reminder service keeps the reminders it accepted and fires   *)
(* them on its own.                                                        *)
(***************************************************************************)
Names == {<<"R", "u", "n">>, <<"r", "u", "n">>, <<"Y", "o", "g", "a">>}

\* What the user types at a habit prompt: a name, a number, or nothing.
Choices == Names \cup {<<"1">>, <<"3">>, <<>>}

\* The dict load_data() returns for the current file.
Data == load_data(file).data

\* The answers of the services in the command loop: the service is down
\* (the request times out) or answers as its interface documents.
Up == Http(200, JsonArray(<<>>))

HealthResponses == {Timeout, Up}

FormatResponses ==
    {Timeout} \cup {Http(200, [success |-> TRUE, formatted |-> n]) : n \in Names}

Started(id) == Http(200, [success |-> TRUE, timer |-> [id |-> [num |-> id]]])

Stopped(e) == Http(200, [success |-> TRUE, timer |-> [elapsedTime |-> e]])

\* check_timer_service, start_timer and stop_timer answers of one session
TimerScenarios ==
    {<<Timeout, Timeout, Timeout>>, <<Up, Timeout, Timeout>>,
     <<Up, Started(0), Stopped(Elapsed1)>>, <<Up, Started(1), Timeout>>,
     <<Up, Started(1), Stopped(Elapsed1)>>}

Created == Http(201, [success |-> TRUE])

Rejected == Http(500, [success |-> FALSE])

CreateResponses == {Timeout, Created, Rejected}

\* The format_text(text) call of a command.
Formatted(text, r) == IF Blank(text) THEN text ELSE format_text(text, r).ret

\* The number of entries of the whole store.
RECURSIVE TotalEntries(_)
TotalEntries(data) ==
    IF data = <<>> THEN 0
    ELSE Len(Head(data).entries) + TotalEntries(Tail(data))

\* The bounds of the model on what a command may write.
WithinBounds(data) == Len(data) <= MaxHabits /\ TotalEntries(data) <= MaxEntries

\* The command's save_data(data), when it made one.
Persist(res) ==
    /\ WithinBounds(res.data)
    /\ file' = IF res.save THEN Saved(res.data) ELSE file

Init ==
    /\ file = NoFile
    /\ today = 1
    /\ reminders = <<>>
    /\ call = [op |-> "prompt"]

\* main() waits at "What would you like to do?"; call holds the command that
\* just ran, with its inputs and outcome, until the loop is back there.
AtPrompt == call.op = "prompt"

\* In the actions below a gateway's answer is drawn only where the command
\* reaches the gateway; elsewhere the one answer named stands for "no call".
AddHabit ==
    /\ AtPrompt
    /\ LET data == Data
       IN  \E name \in Names \cup {<<>>} :
           \E r \in IF name = <<>> THEN {Timeout} ELSE FormatResponses :
              LET res == add_habit(data, name, Formatted(name, r))
              IN  /\ Persist(res)
                  /\ call' = [op |-> "new", before |-> data, saved |-> res.save, typed |-> name,
                              name |-> Formatted(name, r),
                              outcome |-> res.outcome]
    /\ UNCHANGED <<today, reminders>>

MarkHabit ==
    /\ AtPrompt
    /\ LET data == Data
       IN  \E choice \in Choices :
              LET name == select_habit(data, choice)
                  res == mark_habit(data, name, today)
              IN  /\ Persist(res)
                  /\ call' = [op |-> "mark", before |-> data, saved |-> res.save,
                              name |-> name,
                              outcome |-> res.outcome]
    /\ UNCHANGED <<today, reminders>>

TimedHabit ==
    /\ AtPrompt
    /\ LET data == Data
       IN  \E choice \in Choices, sc \in TimerScenarios :
              LET name == select_habit(data, choice)
                  asked == /\ check_service(sc[1]).ret
                           /\ name # <<>> /\ HasKey(data, name)
                           /\ CompletedToday(Get(data, name), today)
              IN  \E again \in IF asked THEN BOOLEAN ELSE {FALSE} :
                     LET res == timed_habit(data, name, today,
                                    check_service(sc[1]).ret, again,
                                    start_timer(sc[2]).ret, stop_timer(sc[3]).ret)
                     IN  /\ Persist(res)
                         /\ call' = [op |-> "timed", before |-> data, saved |-> res.save,
                              name |-> name,
                                     again |-> again, outcome |-> res.outcome]
    /\ UNCHANGED <<today, reminders>>

EditHabit ==
    /\ AtPrompt
    /\ LET data == Data
       IN  \E choice \in Choices, new \in Names \cup {<<>>} :
              LET old == select_habit(data, choice)
                  formats == old # <<>> /\ HasKey(data, old)
                             /\ new # <<>> /\ new # old
              IN  \E r \in IF formats THEN FormatResponses ELSE {Timeout} :
                     LET res == edit_habit(data, old, new, Formatted(new, r))
                     IN  /\ Persist(res)
                         /\ call' = [op |-> "edit", before |-> data, saved |-> res.save,
                                     old |-> old, new |-> new,
                                     formatted_new |-> Formatted(new, r),
                                     outcome |-> res.outcome]
    /\ UNCHANGED <<today, reminders>>

\* What the user types at "Type DELETE to confirm removal".
DeleteAnswers ==
    {<<>>, <<"d", "e", "l", "e", "t", "e">>, <<"D", "E", "L", "E", "T", "E">>}

RemoveHabit ==
    /\ AtPrompt
    /\ LET data == Data
       IN  \E choice \in Choices :
              LET name == select_habit(data, choice)
                  asked == name # <<>> /\ HasKey(data, name)
              IN  \E sure \in IF asked THEN BOOLEAN ELSE {FALSE} :
                  \E typed \in IF sure THEN DeleteAnswers ELSE {<<>>} :
                     LET res == remove_habit(data, name, sure, typed)
                     IN  /\ Persist(res)
                         /\ call' = [op |-> "remove", before |-> data,
                                     saved |-> res.save, name |-> name,
                                     sure |-> sure, typed |-> typed,
                                     outcome |-> res.outcome]
    /\ UNCHANGED <<today, reminders>>

\* The reminder service, asked for its reminders.
Listing == Http(200, JsonArray(reminders))

\* fired_reminders of the main loop: get_fired_habit_reminders() when
\* check_reminder_service() is true, else [].
FiredReminders(rc, rl) ==
    IF check_service(rc).ret
    THEN get_fired_habit_reminders(get_all_reminders(rl).ret, file)
    ELSE <<>>

\* DELETE /reminders/fired/all at the service: every fired reminder goes.
RECURSIVE Unfired(_)
Unfired(rems) ==
    IF rems = <<>> THEN <<>>
    ELSE (IF Head(rems).fired THEN <<>> ELSE <<Head(rems)>>) \o Unfired(Tail(rems))

\* The 'do' command: do_reminded_habit(fired_reminders) when there are fired
\* reminders; the answer to "Clear fired reminders for this habit?" is
\* clear, and the request reaches the service unless it times out.
DoRemindedHabit ==
    /\ AtPrompt
    /\ LET data == Data
       IN  \E rs \in {<<Timeout, Timeout>>, <<Up, Listing>>} :
              LET fired_reminders == FiredReminders(rs[1], rs[2])
                  matched == MatchedHabits(UniqueHabits(AllHabits(fired_reminders)),
                                           Keys(data))
              IN  IF fired_reminders = <<>>
                  THEN /\ call' = [op |-> "do", outcome |-> "NoFiredReminders"]
                       /\ UNCHANGED <<file, reminders>>
                  ELSE \E option \in {<<"1">>, <<"2">>, <<"3">>} :
                       \E habit_choice \in IF Len(matched) > 1 /\ option # <<"3">>
                                           THEN {<<"1">>, <<"2">>, <<"x">>}
                                           ELSE {<<>>} :
                       \E sc \in IF option = <<"2">> THEN TimerScenarios
                                 ELSE {<<Timeout, Timeout, Timeout>>} :
                          LET res == do_reminded_habit(data, fired_reminders,
                                         option, habit_choice, today,
                                         check_service(sc[1]).ret,
                                         start_timer(sc[2]).ret,
                                         stop_timer(sc[3]).ret)
                          IN  \E clear \in IF res.cleanup THEN BOOLEAN ELSE {FALSE} :
                              \E rd \in IF clear THEN HealthResponses ELSE {Timeout} :
                                 /\ Persist(res)
                                 /\ reminders' =
                                       IF clear /\ ~rd.timeout
                                       THEN Unfired(reminders) ELSE reminders
                                 /\ call' = [op |-> "do", before |-> data,
                                             saved |-> res.save,
                                             name |-> res.name,
                                             option |-> option, cleared |-> clear,
                                             outcome |-> res.outcome]
    /\ UNCHANGED today

\* The smallest id the service has not given to a reminder it holds.
FreshId(rems) ==
    CHOOSE n \in 1..(Len(rems) + 1) : \A i \in 1..Len(rems) : rems[i].id # n

\* POST /reminders at the service: an accepted request adds a reminder.
Accept(rems, r, message) ==
    IF r = Created
    THEN Append(rems, [id |-> FreshId(rems), message |-> message, fired |-> FALSE])
    ELSE rems

\* setup_reminders, option 1: a one-time reminder for the selected habit;
\* valid tells whether the unit and the number typed pass the range tests.
SetupOneTime ==
    /\ AtPrompt
    /\ LET data == Data
       IN  \E rc \in HealthResponses :
           \E choice \in IF rc.timeout THEN {<<>>} ELSE Choices :
              LET name == select_habit(data, choice)
                  found == check_service(rc).ret /\ name # <<>> /\ HasKey(data, name)
              IN  \E valid \in IF found THEN BOOLEAN ELSE {FALSE} :
                  \E r \in IF valid THEN CreateResponses ELSE {Timeout} :
                     /\ reminders' =
                           IF valid
                           THEN Accept(reminders, r, ReminderMessage(name))
                           ELSE reminders
                     /\ Len(reminders') <= MaxReminders
                     /\ call' = [op |-> "remind", name |-> name, sent |-> valid,
                                 ok |-> valid /\ create_timed_reminder(r).ret]
    /\ UNCHANGED <<file, today>>

\* setup_reminders, option 2: create_daily_reminder for the selected habit.
SetupDaily ==
    /\ AtPrompt
    /\ LET data == Data
       IN  \E rc \in HealthResponses :
           \E choice \in IF rc.timeout THEN {<<>>} ELSE Choices :
              LET name == select_habit(data, choice)
                  found == check_service(rc).ret /\ name # <<>> /\ HasKey(data, name)
              IN  \E valid \in IF found THEN BOOLEAN ELSE {FALSE} :
                  \E r1 \in IF valid THEN CreateResponses ELSE {Timeout} :
                  \E r2 \in IF valid /\ ~r1.timeout THEN CreateResponses
                            ELSE {Timeout} :
                     /\ reminders' =
                           IF ~valid THEN reminders
                           ELSE Accept(Accept(reminders, r1, ReminderMessage(name)),
                                       r2, ReminderMessage(name))
                     /\ Len(reminders') <= MaxReminders
                     /\ call' = [op |-> "daily", name |-> name, sent |-> valid,
                                 ok |-> valid /\ create_daily_reminder(r1, r2).ret]
    /\ UNCHANGED <<file, today>>

\* The reminder service fires a reminder whose time has come.
ReminderFires ==
    /\ AtPrompt
    /\ \E i \in 1..Len(reminders) :
          /\ ~reminders[i].fired
          /\ reminders' = [reminders EXCEPT ![i].fired = TRUE]
    /\ UNCHANGED <<file, today, call>>

\* Midnight passes: date.today() moves on.
NextDay ==
    /\ AtPrompt
    /\ today < MaxDay
    /\ today' = today + 1
    /\ UNCHANGED <<file, reminders, call>>

\* The command returns and the while loop of main() prompts again.
Prompt ==
    /\ ~AtPrompt
    /\ call' = [op |-> "prompt"]
    /\ UNCHANGED <<file, today, reminders>>

Next ==
    \/ AddHabit \/ MarkHabit \/ TimedHabit \/ EditHabit \/ RemoveHabit
    \/ DoRemindedHabit \/ SetupOneTime \/ SetupDaily
    \/ ReminderFires \/ NextDay \/ Prompt

Spec == Init /\ [][Next]_vars

\* Two entries of one list with the same date.
HasSameDayPair(entries) ==
    \E i, j \in 1..Len(entries) :
        i < j /\ GetDate(entries[i]) = GetDate(entries[j])

\* The commands that load the store and may save it; call.before is the
\* dict the command loaded.
StoreCommands == {"new", "mark", "timed", "edit", "remove", "do"}

\* C1: a list that had no two entries of the same date gets such a pair only
\* from the timed-tracking flow, after the user confirmed another session;
\* every other insertion path tests for a same-day entry first.
C1_SameDayPairOnlyFromConfirmedTimed ==
    (call.op \in StoreCommands /\ "before" \in DOMAIN call) =>
        LET after == Data
        IN  \A k \in 1..Len(after) :
               (/\ HasSameDayPair(after[k].entries)
                /\ HasKey(call.before, after[k].name)
                /\ ~HasSameDayPair(Get(call.before, after[k].name)))
                  => (call.op = "timed" /\ call.again)

\* The edit_habit call reached the test of the formatted name: the habit to
\* rename exists and a new, different name was typed. call.before is the
\* dict the command loaded.
RenameAttempt ==
    /\ call.op = "edit"
    /\ HasKey(call.before, call.old)
    /\ call.new # <<>> /\ call.new # call.old

\* C9: a rename to a name that, after formatting, is a key of the store
\* fails with DuplicateName and leaves the persisted store as it was.
C9_RenameToExistingFails ==
    (RenameAttempt /\ HasKey(call.before, call.formatted_new))
       => (call.outcome = "DuplicateName" /\ file = Saved(call.before))

C9_Witness ==
    /\ RenameAttempt
    /\ call.outcome = "DuplicateName"
    /\ call.formatted_new # call.old
    /\ Get(call.before, call.old) # <<>>
    /\ Get(call.before, call.formatted_new) # <<>>
    /\ Get(call.before, call.old) # Get(call.before, call.formatted_new)

\* C10: a rename to a name that is no key of the store moves the list: the
\* old key is gone, the new key holds the old list as it was, and the
\* other habits and their lists are the same.
C10_RenameMovesTheList ==
    (RenameAttempt /\ ~HasKey(call.before, call.formatted_new))
       => LET after == Data
          IN  /\ call.outcome = "Renamed"
              /\ ~HasKey(after, call.old)
              /\ HasKey(after, call.formatted_new)
              /\ Get(after, call.formatted_new) = Get(call.before, call.old)
              /\ \A k \in 1..Len(call.before) :
                    call.before[k].name # call.old =>
                       /\ HasKey(after, call.before[k].name)
                       /\ Get(after, call.before[k].name) = call.before[k].entries
              /\ \A k \in 1..Len(after) :
                    after[k].name # call.formatted_new =>
                       HasKey(call.before, after[k].name)

C10_Witness ==
    /\ RenameAttempt
    /\ call.outcome = "Renamed"
    /\ Len(call.before) = 2
    /\ Get(call.before, call.old) # <<>>
    /\ \E k \in 1..Len(call.before) :
          call.before[k].name # call.old /\ call.before[k].entries # <<>>

\* C11: adding a name that, as stored, is already a key fails with
\* DuplicateName and leaves the store as it was; otherwise the store gains
\* that key with an empty list and the other habits are the same.
C11_AddDuplicateFailsElseInserts ==
    (call.op = "new" /\ call.typed # <<>>) =>
        LET after == Data
        IN  IF HasKey(call.before, call.name)
            THEN /\ call.outcome = "DuplicateName"
                 /\ after = call.before
                 /\ file = Saved(call.before)
            ELSE /\ call.outcome = "Added"
                 /\ HasKey(after, call.name)
                 /\ Get(after, call.name) = <<>>
                 /\ Len(after) = Len(call.before) + 1
                 /\ \A k \in 1..Len(call.before) :
                       /\ HasKey(after, call.before[k].name)
                       /\ Get(after, call.before[k].name) = call.before[k].entries

C11_Witness ==
    /\ call.op = "new"
    /\ call.outcome = "DuplicateName"
    /\ call.typed # call.name
    /\ Get(call.before, call.name) # <<>>
    /\ Get(Data, call.name) = Get(call.before, call.name)

\* C12: a present name confirmed twice (y/yes, then DELETE) is removed and
\* the other habits are the same; an absent name or a declined confirmation
\* fails and writes nothing.
C12_RemoveDeletesOnlyWhenConfirmed ==
    call.op = "remove" =>
        LET after == Data
            present == call.name # <<>> /\ HasKey(call.before, call.name)
            confirmed == call.sure /\ call.typed = <<"D", "E", "L", "E", "T", "E">>
        IN  IF present /\ confirmed
            THEN /\ call.outcome = "Removed"
                 /\ ~HasKey(after, call.name)
                 /\ Len(after) = Len(call.before) - 1
                 /\ \A k \in 1..Len(call.before) :
                       call.before[k].name # call.name =>
                          /\ HasKey(after, call.before[k].name)
                          /\ Get(after, call.before[k].name)
                                = call.before[k].entries
            ELSE /\ call.outcome =
                       (IF call.name # <<>> /\ ~present THEN "NotFound"
                        ELSE "Cancelled")
                 /\ ~call.saved
                 /\ after = call.before

C12_Witness ==
    /\ call.op = "remove"
    /\ call.outcome = "Removed"
    /\ Len(call.before) = 2
    /\ Get(call.before, call.name) # <<>>
    /\ \E k \in 1..Len(call.before) :
          call.before[k].name # call.name /\ call.before[k].entries # <<>>

\* C13: a mark of a habit whose list already holds an entry dated today,
\* as a first mark of the day leaves it, appends nothing and does not write
\* the store.
C13_SecondMarkSameDayAppendsNothing ==
    (/\ call.op = "mark"
     /\ call.name # <<>> /\ HasKey(call.before, call.name)
     /\ CompletedToday(Get(call.before, call.name), today))
        => /\ call.outcome = "AlreadyCompleted"
           /\ ~call.saved
           /\ Len(Get(Data, call.name)) = Len(Get(call.before, call.name))
           /\ Data = call.before

C13_Witness ==
    /\ call.op = "mark"
    /\ call.outcome = "AlreadyCompleted"
    /\ Get(call.before, call.name) = <<Entry(DateStr(today), None)>>
    /\ Get(Data, call.name) = <<Entry(DateStr(today), None)>>

(***************************************************************************)
(* The record store alone: load_data and save_data applied to files that   *)
(* may hold legacy lists (bare date strings), structured lists, or both.   *)
(***************************************************************************)
StoreNames == {<<"R", "u", "n">>, <<"Y", "o", "g", "a">>}

RawElements ==
    {DateStr(d) : d \in 1..MaxDay}
    \cup {Entry(DateStr(d), None) : d \in 1..MaxDay}
    \cup {Entry(DateStr(1), Elapsed1)}

RawLists == UNION {[1..n -> RawElements] : n \in 0..MaxEntries}

\* The dicts a persisted document can spell: distinct names, any lists.
RawDocs ==
    {d \in UNION {[1..n -> [name : StoreNames, entries : RawLists]] :
                    n \in 0..Cardinality(StoreNames)} : NoDuplicates(Keys(d))}

StoreInit ==
    /\ file \in {NoFile} \cup {Saved(d) : d \in RawDocs}
    /\ today = 1
    /\ reminders = <<>>
    /\ call = [op |-> "none"]

\* data = load_data()
LoadCall ==
    /\ call' = [op |-> "load", out |-> load_data(file)]
    /\ UNCHANGED <<file, today, reminders>>

\* save_data(data) of the loaded dict, with or without one more habit; the
\* write may stop after any number of tokens (an OSError from f.write).
SaveCall ==
    /\ call.op = "none"
    /\ ~load_data(file).raised
    /\ \E nm \in StoreNames :
       \E data \in {load_data(file).data, Put(load_data(file).data, nm, <<>>)} :
       \E n \in 0..Len(JsonDump(data)) :
          /\ file' = save_data(data, n)
          /\ call' = [op |-> "save", before |-> file, data |-> data,
                      raised |-> n < Len(JsonDump(data))]
    /\ UNCHANGED <<today, reminders>>

StoreNext == LoadCall \/ SaveCall

SpecStore == StoreInit /\ [][StoreNext]_vars

\* C2: after load_data() every element of every list is a structured entry:
\* each bare date string d of the persisted list has become
\* {date: d, duration: None} and each structured entry is as it was.
UpgradedList(entries) ==
    [i \in 1..Len(entries) |->
        IF IsStr(entries[i]) THEN Entry(entries[i], None) ELSE entries[i]]

C2_LoadUpgradesEveryBareString ==
    (call.op = "load" /\ file.exists /\ ~call.out.raised) =>
        /\ Keys(call.out.data) = Keys(JsonLoad(file.tokens).data)
        /\ \A k \in 1..Len(call.out.data) :
              call.out.data[k].entries =
                  UpgradedList(JsonLoad(file.tokens).data[k].entries)

\* C3: a save_data that fails part-way leaves the file as it was before.
C3_FailedSaveKeepsPriorFile ==
    (call.op = "save" /\ call.raised) => file = call.before

\* Every entry of every list is a structured entry (a dict).
Structured(data) ==
    \A k \in 1..Len(data) :
        \A i \in 1..Len(data[k].entries) : IsDict(data[k].entries[i])

\* C15: a store of structured entries that save_data wrote in full is what
\* load_data returns: the same names, and for each the same entries in the
\* same order.
C15_LoadOfSaveIsTheStore ==
    (call.op = "save" /\ ~call.raised /\ Structured(call.data)) =>
        /\ ~load_data(file).raised
        /\ {Keys(load_data(file).data)[k] : k \in 1..Len(load_data(file).data)}
              = {Keys(call.data)[k] : k \in 1..Len(call.data)}
        /\ \A k \in 1..Len(call.data) :
              Get(load_data(file).data, call.data[k].name) = call.data[k].entries

C15_Witness ==
    /\ call.op = "save" /\ ~call.raised
    /\ Len(call.data) = 2
    /\ call.data[1].entries = <<Entry(DateStr(1), Elapsed1), Entry(DateStr(2), None)>>
    /\ call.data[2].entries = <<>>
    /\ load_data(file).data = call.data

(***************************************************************************)
(* The gateways alone: each applied to every response of a bounded set.    *)
(***************************************************************************)
Statuses == {200, 201, 500}

GatewayTexts == {<<>>, <<" ">>, <<"r", "u", "n">>, <<"R", "u", "n">>}

\* The bodies a service can answer with: no JSON, JSON of another shape,
\* and objects with and without the keys the gateways read.
Bodies ==
    {NotJson, JsonArray(<<>>), [error |-> TRUE],
     [success |-> FALSE], [success |-> TRUE],
     [success |-> TRUE, timer |-> [label |-> TRUE]],
     [success |-> TRUE, timer |-> [id |-> [num |-> 0]]],
     [success |-> TRUE, timer |-> [id |-> [num |-> 1], elapsedTime |-> Elapsed1]],
     [success |-> TRUE, timer |-> [id |-> [num |-> 1], elapsedTime |-> None]],
     [success |-> TRUE, deletedCount |-> 1],
     [success |-> TRUE, formatted |-> <<"R", "u", "n">>]}

Responses == {Timeout} \cup {Http(st, b) : st \in Statuses, b \in Bodies}

GatewayInit ==
    /\ file = NoFile
    /\ today = 1
    /\ reminders = <<>>
    /\ call = [op |-> "none"]

\* The record of one gateway call: the responses it received, what it
\* returned and its documented fallback.
Gateway(gw, resps, out, fallback) ==
    [op |-> "gateway", gw |-> gw, resps |-> resps, out |-> out,
     fallback |-> fallback]

GwCheckTimer ==
    /\ call.op = "none"
    /\ \E r \in Responses :
          call' = Gateway("check_timer_service", <<r>>, check_service(r), FALSE)
    /\ UNCHANGED <<file, today, reminders>>

GwCheckReminder ==
    /\ call.op = "none"
    /\ \E r \in Responses :
          call' = Gateway("check_reminder_service", <<r>>, check_service(r), FALSE)
    /\ UNCHANGED <<file, today, reminders>>

GwCheckFormatter ==
    /\ call.op = "none"
    /\ \E r \in Responses :
          call' = Gateway("check_formatter_service", <<r>>, check_service(r), FALSE)
    /\ UNCHANGED <<file, today, reminders>>

GwStartTimer ==
    /\ call.op = "none"
    /\ \E r \in Responses :
          call' = Gateway("start_timer", <<r>>, start_timer(r), None)
    /\ UNCHANGED <<file, today, reminders>>

GwStopTimer ==
    /\ call.op = "none"
    /\ \E r \in Responses :
          call' = Gateway("stop_timer", <<r>>, stop_timer(r), None)
    /\ UNCHANGED <<file, today, reminders>>

GwCreateTimed ==
    /\ call.op = "none"
    /\ \E r \in Responses :
          call' = Gateway("create_timed_reminder", <<r>>,
                          create_timed_reminder(r), FALSE)
    /\ UNCHANGED <<file, today, reminders>>

\* The second request is sent only when the first did not raise.
GwCreateDaily ==
    /\ call.op = "none"
    /\ \E r1, r2 \in Responses :
          call' = Gateway("create_daily_reminder",
                          IF r1.timeout THEN <<r1>> ELSE <<r1, r2>>,
                          create_daily_reminder(r1, r2), FALSE)
    /\ UNCHANGED <<file, today, reminders>>

GwGetAll ==
    /\ call.op = "none"
    /\ \E r \in Responses :
          call' = Gateway("get_all_reminders", <<r>>, get_all_reminders(r),
                          JsonArray(<<>>))
    /\ UNCHANGED <<file, today, reminders>>

GwDelete ==
    /\ call.op = "none"
    /\ \E r \in Responses :
          call' = Gateway("delete_reminder", <<r>>, delete_reminder(r), FALSE)
    /\ UNCHANGED <<file, today, reminders>>

GwDeleteAllFired ==
    /\ call.op = "none"
    /\ \E r \in Responses :
          call' = Gateway("delete_all_fired_reminders", <<r>>,
                          delete_all_fired_reminders(r), <<FALSE, 0>>)
    /\ UNCHANGED <<file, today, reminders>>

\* Blank text is returned at once, without a request.
GwFormat ==
    /\ call.op = "none"
    /\ \E text \in GatewayTexts, r \in Responses :
          call' = IF Blank(text)
                  THEN Gateway("format_text", <<>>,
                               [raised |-> FALSE, ret |-> text], text)
                  ELSE Gateway("format_text", <<r>>, format_text(text, r), text)
    /\ UNCHANGED <<file, today, reminders>>

GatewayNext ==
    \/ GwCheckTimer \/ GwCheckReminder \/ GwCheckFormatter
    \/ GwStartTimer \/ GwStopTimer
    \/ GwCreateTimed \/ GwCreateDaily \/ GwGetAll \/ GwDelete \/ GwDeleteAllFired
    \/ GwFormat

SpecGateway == GatewayInit /\ [][GatewayNext]_vars

HealthChecks ==
    {"check_timer_service", "check_reminder_service", "check_formatter_service"}

\* The shape of the success payload each gateway is documented to receive.
ExpectedShape(gw, b) ==
    CASE gw \in HealthChecks -> TRUE
      [] gw = "get_all_reminders" -> IsJson(b) /\ ~IsObject(b)
      [] gw = "start_timer" ->
            /\ IsObject(b) /\ "success" \in DOMAIN b
            /\ b.success => ("timer" \in DOMAIN b /\ "id" \in DOMAIN b.timer)
      [] gw = "stop_timer" ->
            /\ IsObject(b) /\ "success" \in DOMAIN b
            /\ b.success =>
                 ("timer" \in DOMAIN b /\ "elapsedTime" \in DOMAIN b.timer)
      [] gw = "format_text" ->
            /\ IsObject(b) /\ "success" \in DOMAIN b
            /\ b.success => "formatted" \in DOMAIN b
      [] OTHER -> IsObject(b) /\ "success" \in DOMAIN b

\* A response with a non-2xx status, or valid JSON of an unexpected shape.
Non2xxOrMalformed(gw, r) ==
    /\ ~r.timeout
    /\ \/ r.status \notin 200..299
       \/ IsJson(r.body) /\ ~ExpectedShape(gw, r.body)

\* C4: a gateway call all of whose responses have a non-2xx status or a
\* malformed payload returns its designated fallback.
C4_FallbackOnNon2xxOrMalformed ==
    (/\ call.op = "gateway"
     /\ call.resps # <<>>
     /\ \A i \in 1..Len(call.resps) : Non2xxOrMalformed(call.gw, call.resps[i]))
        => call.out.ret = call.fallback

TimedOut(resps) == \E i \in 1..Len(resps) : resps[i].timeout

GotNotJson(resps) ==
    \E i \in 1..Len(resps) : ~resps[i].timeout /\ ~IsJson(resps[i].body)

ParsedNotJson(gw, resps) ==
    \E i \in 1..Len(resps) :
        /\ ~resps[i].timeout
        /\ ~IsJson(resps[i].body)
        /\ gw \notin HealthChecks
        /\ gw = "get_all_reminders" => resps[i].status = 200
        /\ gw = "create_daily_reminder" => resps[i].status = 201

MaxMsgLen == 4

\* The longest reminder list handed to the reconciliation alone.
MaxFired == 2

MsgChars == {"a", "B", " ", ",", ":"}

Messages == UNION {[1..n -> MsgChars] : n \in 0..MaxMsgLen}

ExtractInit ==
    /\ file = NoFile
    /\ today = 1
    /\ reminders = <<>>
    /\ call = [op |-> "none"]

\* The function is applied once to the message drawn.
ExtractCall ==
    /\ call.op = "none"
    /\ \E m \in Messages :
          call' = [op |-> "extract", message |-> m,
                   out |-> extract_habits_from_reminder(m)]
    /\ UNCHANGED <<file, today, reminders>>

SpecExtract == ExtractInit /\ [][ExtractCall]_vars

RemindNames == {<<"a">>, <<"A">>, <<"a", "b">>, <<"A", "b">>}

KeySeqs ==
    {k \in UNION {[1..n -> RemindNames] : n \in 0..MaxHabits} : NoDuplicates(k)}

RemindMessages ==
    {<<>>, <<"a">>, <<"x", ":", "c">>, <<"t", ":", " ", "A", "B">>,
     <<"t", ":", "a", ",", "A">>}

RemindItems ==
    {[id |-> 1, message |-> m, fired |-> f] : m \in RemindMessages, f \in BOOLEAN}
    \cup {[id |-> 1, message |-> <<"a">>], [id |-> 1, fired |-> TRUE]}

ReminderLists == UNION {[1..n -> RemindItems] : n \in 0..MaxFired}

StoreOfKeys(keys) == [i \in 1..Len(keys) |-> [name |-> keys[i], entries |-> <<>>]]

RemindInit ==
    /\ file \in {NoFile} \cup {Saved(StoreOfKeys(k)) : k \in KeySeqs}
    /\ today = 1
    /\ reminders \in ReminderLists
    /\ call = [op |-> "none"]

\* fired_reminders = get_fired_habit_reminders() of the main loop
FilterCall ==
    /\ call' = [op |-> "filter",
                out |-> get_fired_habit_reminders(JsonArray(reminders), file)]
    /\ UNCHANGED <<file, today, reminders>>

\* The matching step of do_reminded_habit on the fired reminders of the
\* main loop and the keys of the loaded store.
MatchCall ==
    /\ LET fired_reminders ==
               get_fired_habit_reminders(JsonArray(reminders), file)
       IN  call' = [op |-> "match",
                    all_habits |-> AllHabits(fired_reminders),
                    keys |-> Keys(load_data(file).data),
                    out |-> MatchedHabits(UniqueHabits(AllHabits(fired_reminders)),
                                          Keys(load_data(file).data))]
    /\ UNCHANGED <<file, today, reminders>>

RemindNext == FilterCall \/ MatchCall

SpecRemind == RemindInit /\ [][RemindNext]_vars

\* The habit a candidate stands for: the first key, in store order, whose
\* lowercase form equals the candidate's.
Matches(c, keys) == {i \in 1..Len(keys) : Lower(keys[i]) = Lower(c)}

MatchOf(c, keys) ==
    keys[CHOOSE i \in Matches(c, keys) : \A j \in Matches(c, keys) : i <= j]

\* The first candidate position that stands for the habit h.
FirstSeen(h, cands, keys) ==
    CHOOSE i \in 1..Len(cands) :
        /\ Matches(cands[i], keys) # {} /\ MatchOf(cands[i], keys) = h
        /\ \A j \in 1..Len(cands) :
              (Matches(cands[j], keys) # {} /\ MatchOf(cands[j], keys) = h)
                 => i <= j

\* C6: the output holds exactly the first matches of the candidates, each
\* habit once, in the order in which the candidates first name them.
C6_MatchedOnceInCandidateOrder ==
    call.op = "match" =>
        /\ {call.out[i] : i \in 1..Len(call.out)} =
              {MatchOf(call.all_habits[i], call.keys) :
                  i \in {j \in 1..Len(call.all_habits) :
                            Matches(call.all_habits[j], call.keys) # {}}}
        /\ NoDuplicates(call.out)
        /\ \A i, j \in 1..Len(call.out) :
              i < j => FirstSeen(call.out[i], call.all_habits, call.keys)
                         < FirstSeen(call.out[j], call.all_habits, call.keys)

\* The claim's own reading of extractCandidates, by positions.
Positions(s, c) == {i \in 1..Len(s) : s[i] = c}

Trimmed(s) ==
    LET ns == {i \in 1..Len(s) : s[i] # " "}
    IN  IF ns = {} THEN <<>>
        ELSE SubSeq(s, CHOOSE i \in ns : \A j \in ns : i <= j,
                       CHOOSE i \in ns : \A j \in ns : j <= i)

\* The position of the n-th comma of s; 0 for n = 0, Len(s) + 1 past the last.
NthComma(s, n) ==
    IF n = 0 THEN 0
    ELSE IF n > Cardinality(Positions(s, ",")) THEN Len(s) + 1
    ELSE CHOOSE p \in Positions(s, ",") :
            Cardinality({q \in Positions(s, ",") : q < p}) = n - 1

AfterFirstColon(m) ==
    LET k == CHOOSE i \in Positions(m, ":") : \A j \in Positions(m, ":") : i <= j
    IN  Trimmed(SubSeq(m, k + 1, Len(m)))

\* C7: no colon gives no candidate; otherwise the candidates are the
\* comma-separated pieces, each trimmed and in order, of the trimmed text
\* after the first colon (one piece when it has no comma).
C7_ExtractCandidates ==
    call.op = "extract" =>
        IF Positions(call.message, ":") = {} THEN call.out = <<>>
        ELSE LET t == AfterFirstColon(call.message)
             IN  call.out =
                    [n \in 1..(Cardinality(Positions(t, ",")) + 1) |->
                        Trimmed(SubSeq(t, NthComma(t, n - 1) + 1,
                                          NthComma(t, n) - 1))]

C7_Witness ==
    /\ call.op = "extract"
    /\ call.message = <<":", "a", ",", "B">>
    /\ call.out = <<<<"a">>, <<"B">>>>

\* A reminder qualifies when it is fired and its message contains, ignoring
\* case, the name of a tracked habit.
Qualifies(r) ==
    /\ "fired" \in DOMAIN r /\ r.fired
    /\ \E k \in 1..Len(Keys(load_data(file).data)) :
          Contains(Lower(GetMessage(r)), Lower(Keys(load_data(file).data)[k]))

\* C8: the result is exactly the messages of the qualifying reminders, in
\* input order; it is empty when the store has no habit.
C8_FilterFiredRelevant ==
    call.op = "filter" =>
        LET chosen == SelectSeq(reminders, Qualifies)
        IN  /\ call.out = [i \in 1..Len(chosen) |-> GetMessage(chosen[i])]
            /\ load_data(file).data = <<>> => call.out = <<>>

C8_Witness ==
    /\ call.op = "filter"
    /\ Len(reminders) = 2
    /\ ~GetFired(reminders[1])
    /\ ContainsHabit(GetMessage(reminders[1]), Keys(load_data(file).data))
    /\ GetFired(reminders[2])
    /\ GetMessage(reminders[2]) = <<"t", ":", " ", "A", "B">>
    /\ Keys(load_data(file).data) = <<<<"a", "b">>>>
    /\ call.out = <<<<"t", ":", " ", "A", "B">>>>

(***************************************************************************)
(* The statistics of view_habits alone: the "Average time" line computed   *)
(* for bounded entry lists.                                                *)
(***************************************************************************)
MaxStatEntries == 3

\* str(n) of a natural number
RECURSIVE Str(_)
Str(n) ==
    IF n < 10 THEN <<DigitChars[n + 1]>>
    ELSE Str(n \div 10) \o <<DigitChars[(n % 10) + 1]>>

\* f"{n:02d}"
Pad2(n) == IF n < 10 THEN <<"0">> \o Str(n) ELSE Str(n)

\* [e for e in entries if isinstance(e, dict) and e.get('duration')]
TimedEntries(entries) ==
    SelectSeq(entries,
              LAMBDA e : IsDict(e) /\ "duration" \in DOMAIN e /\ ~Falsy(e.duration))

\* sum(e['duration'].get('totalSeconds', 0) for e in timed_entries)
RECURSIVE TotalSeconds(_)
TotalSeconds(timed_entries) ==
    IF timed_entries = <<>> THEN 0
    ELSE (IF "totalSeconds" \in DOMAIN Head(timed_entries).duration
          THEN Head(timed_entries).duration.totalSeconds ELSE 0)
         + TotalSeconds(Tail(timed_entries))

\* A mutant of AverageTime: the sum is divided by len(entries).
AverageOverAllEntries(entries) ==
    LET timed_entries == TimedEntries(entries)
    IN  IF timed_entries = <<>> THEN [shown |-> FALSE]
        ELSE LET avg_seconds == TotalSeconds(timed_entries) \div Len(entries)
             IN  [shown |-> TRUE,
                  avg_seconds |-> avg_seconds,
                  avg_formatted |-> Pad2(avg_seconds \div 3600) \o <<":">>
                                    \o Pad2((avg_seconds % 3600) \div 60) \o <<":">>
                                    \o Pad2(avg_seconds % 60),
                  sessions |-> Len(timed_entries)]

\* view_habits: the "Average time" line of one habit, shown only when the
\* habit has timed entries.
AverageTime(entries) ==
    LET timed_entries == TimedEntries(entries)
    IN  IF timed_entries = <<>> THEN [shown |-> FALSE]
        ELSE LET avg_seconds == TotalSeconds(timed_entries) \div Len(timed_entries)
                 avg_hours == avg_seconds \div 3600
                 avg_minutes == (avg_seconds % 3600) \div 60
                 avg_secs == avg_seconds % 60
             IN  [shown |-> TRUE,
                  avg_seconds |-> avg_seconds,
                  avg_formatted |-> Pad2(avg_hours) \o <<":">> \o Pad2(avg_minutes)
                                    \o <<":">> \o Pad2(avg_secs),
                  sessions |-> Len(timed_entries)]

\* The totalSeconds of the timed entries of the lists viewed.
StatSeconds == {0, 59, 60, 120, 180, 3661, 86399, 360000}

\* The entries of the lists viewed: untimed, timed, and a bare date string.
StatEntries ==
    {Entry(DateStr(1), None), DateStr(1)}
    \cup {Entry(DateStr(1), [totalSeconds |-> n, formatted |-> <<>>]) :
             n \in StatSeconds}

StatLists == UNION {[1..n -> StatEntries] : n \in 0..MaxStatEntries}

StatsInit ==
    /\ file = NoFile
    /\ today = 1
    /\ reminders = <<>>
    /\ call = [op |-> "none"]

\* view_habits shows one habit whose list is drawn.
ViewStats ==
    /\ call.op = "none"
    /\ \E entries \in StatLists :
          call' = [op |-> "stats", entries |-> entries, out |-> AverageTime(entries)]
    /\ UNCHANGED <<file, today, reminders>>

SpecStats == StatsInit /\ [][ViewStats]_vars

\* The positions of the entries with a non-null duration.
TimedAt(entries) ==
    {i \in 1..Len(entries) :
        IsDict(entries[i]) /\ entries[i].duration # None}

\* The sum of totalSeconds over a set of positions.
RECURSIVE SumAt(_, _)
SumAt(entries, at) ==
    IF at = {} THEN 0
    ELSE LET i == CHOOSE j \in at : TRUE
         IN  entries[i].duration.totalSeconds + SumAt(entries, at \ {i})

\* C14: no average without a timed entry; otherwise the average is the
\* floor of the sum of totalSeconds over the entries with a non-null
\* duration divided by their number, and the text shown is HH:MM:SS whose
\* three numbers are avg // 3600, (avg % 3600) // 60 and avg % 60, each of
\* two digits at least.
C14_AverageOverTimedEntries ==
    call.op = "stats" =>
        LET at == TimedAt(call.entries)
            n == Cardinality(at)
            total == SumAt(call.entries, at)
        IN  IF n = 0 THEN ~call.out.shown
            ELSE LET avg == call.out.avg_seconds
                     hms == Split(call.out.avg_formatted, ":")
                 IN  /\ call.out.shown
                     /\ avg * n <= total /\ total < (avg + 1) * n
                     /\ Len(hms) = 3
                     /\ \A k \in 1..3 : Len(hms[k]) >= 2 /\ IsDigits(hms[k])
                     /\ IntOf(hms[1]) = avg \div 3600
                     /\ IntOf(hms[2]) = (avg % 3600) \div 60
                     /\ IntOf(hms[3]) = avg % 60
                     /\ IntOf(hms[2]) < 60 /\ IntOf(hms[3]) < 60
                     /\ IntOf(hms[1]) * 3600 + IntOf(hms[2]) * 60 + IntOf(hms[3])
                           = avg

C14_Witness ==
    /\ call.op = "stats"
    /\ Len(call.entries) = 3
    /\ \A i \in 1..3 : IsDict(call.entries[i]) /\ call.entries[i].duration # None
    /\ call.entries[1].duration.totalSeconds = 60
    /\ call.entries[2].duration.totalSeconds = 120
    /\ call.entries[3].duration.totalSeconds = 180
    /\ call.out.avg_seconds = 120
    /\ call.out.avg_formatted = <<"0", "0", ":", "0", "2", ":", "0", "0">>

(***************************************************************************)
(* The process of main(): every command of the dispatch table, with the    *)
(* services answering anything (down, as documented, or with a payload of  *)
(* another shape). A command returns to the while loop or ends in an       *)
(* exception nothing catches, which ends the process. The services are     *)
(* known here by their answers only.                                       *)
(***************************************************************************)
LoopName == <<"R", "u", "n">>

\* What the user types at a habit prompt.
LoopChoices == {<<>>, <<"1">>, <<"9">>, LoopName, <<"Y", "o", "g", "a">>}

LoopFormats == {Timeout, Http(200, [success |-> TRUE, formatted |-> LoopName])}

\* The elapsedTime payloads of a stop answer: the documented record, a
\* record without 'formatted', and a bare number.
LoopElapsed == {Elapsed1, [totalSeconds |-> 60], [num |-> 5]}

LoopTimerScenarios ==
    {<<Timeout, Timeout, Timeout>>, <<Up, Timeout, Timeout>>,
     <<Up, Started(1), Timeout>>, <<Up, Started(0), Stopped(Elapsed1)>>}
    \cup {<<Up, Started(1), Stopped(e)>> : e \in LoopElapsed}

\* The answers to GET /reminders: none, no reminder, one fired reminder
\* naming two habits, an object in place of the list, a body that is not
\* JSON.
FiredListing ==
    Http(200, JsonArray(<<[id |-> 1,
                           message |-> ReminderMessage(LoopName)
                                       \o <<",", "Y", "o", "g", "a">>,
                           fired |-> TRUE]>>))

LoopListings ==
    {Timeout, Http(200, JsonArray(<<>>)), FiredListing,
     Http(200, [error |-> TRUE]), Http(200, NotJson), Http(500, [error |-> TRUE])}

\* elapsed['formatted'] and elapsed['totalSeconds'] >= 300 of timed_habit,
\* read after the entry is saved: KeyError or TypeError.
ElapsedReadRaises(elapsed) ==
    \/ "num" \in DOMAIN elapsed
    \/ "formatted" \notin DOMAIN elapsed
    \/ "totalSeconds" \notin DOMAIN elapsed

\* elapsed['formatted'] of do_reminded_habit, read after the entry is saved.
ElapsedFormattedRaises(elapsed) ==
    "num" \in DOMAIN elapsed \/ "formatted" \notin DOMAIN elapsed

\* e['duration'].get('totalSeconds', 0) of view_habits: AttributeError for a
\* stored duration that is no dict.
ViewRaises(data) ==
    \E k \in 1..Len(data) : \E i \in 1..Len(data[k].entries) :
        LET e == data[k].entries[i]
        IN  IsDict(e) /\ ~Falsy(e.duration) /\ "num" \in DOMAIN e.duration

\* setup_reminders, options 3 and 4: `r.get('message', '')` for r in what
\* get_all_reminders() returned; iterating a dict gives its keys, and a str
\* has no get.
ListingRaises(got) == IsObject(got)

\* int(s): the number a line of digits, with or without a minus sign,
\* spells; anything else is a ValueError.
ParseInt(s) ==
    IF IsDigits(s) THEN [ok |-> TRUE, val |-> IntOf(s)]
    ELSE IF Len(s) > 1 /\ s[1] = "-" /\ IsDigits(Tail(s))
         THEN [ok |-> TRUE, val |-> 0 - IntOf(Tail(s))]
    ELSE [ok |-> FALSE, val |-> 0]

\* A mutant of delay_seconds: the range tests are missing.
delay_seconds_unchecked(unit_choice, typed, least) ==
    IF unit_choice \notin {"1", "2", "3"}
    THEN [outcome |-> "InvalidChoice", seconds |-> 0]
    ELSE IF ~ParseInt(typed).ok THEN [outcome |-> "InvalidInput", seconds |-> 0]
    ELSE [outcome |-> "Delay",
          seconds |-> ParseInt(typed).val
                        * (CASE unit_choice = "1" -> 1 [] unit_choice = "2" -> 60
                             [] OTHER -> 3600)]

\* The try block that reads the delay of a one-time reminder: the unit, the
\* number typed and its range test; least is the smallest number of seconds
\* accepted (10 in setup_reminders, 30 in view_habits).
delay_seconds(unit_choice, typed, least) ==
    LET n == ParseInt(typed).val
    IN  IF unit_choice \notin {"1", "2", "3"}
        THEN [outcome |-> "InvalidChoice", seconds |-> 0]
        ELSE IF ~ParseInt(typed).ok
             THEN [outcome |-> "InvalidInput", seconds |-> 0]
        ELSE IF unit_choice = "1"
             THEN IF n < least \/ n > 3600
                  THEN [outcome |-> "OutOfRange", seconds |-> 0]
                  ELSE [outcome |-> "Delay", seconds |-> n]
        ELSE IF unit_choice = "2"
             THEN IF n < 1 \/ n > 1440
                  THEN [outcome |-> "OutOfRange", seconds |-> 0]
                  ELSE [outcome |-> "Delay", seconds |-> n * 60]
        ELSE IF n < 1 \/ n > 24
             THEN [outcome |-> "OutOfRange", seconds |-> 0]
             ELSE [outcome |-> "Delay", seconds |-> n * 3600]

\* The try block of the daily reminder: hours from now, 1 to 24.
daily_hours(typed) ==
    IF ~ParseInt(typed).ok THEN [outcome |-> "InvalidInput", hours |-> 0]
    ELSE IF ParseInt(typed).val < 1 \/ ParseInt(typed).val > 24
         THEN [outcome |-> "OutOfRange", hours |-> 0]
    ELSE [outcome |-> "Delay", hours |-> ParseInt(typed).val]

\* view_habits: incomplete_habits is empty or not
RECURSIVE HasIncomplete(_, _)
HasIncomplete(data, d) ==
    IF data = <<>> THEN FALSE
    ELSE ~CompletedToday(Head(data).entries, d) \/ HasIncomplete(Tail(data), d)

\* The units and the numbers typed at the delay prompts.
Units == {"1", "2", "3", "4"}

Typed ==
    {<<>>, <<"x">>, <<"-", "1">>, <<"0">>, <<"1">>, <<"9">>, <<"1", "0">>,
     <<"2", "4">>, <<"2", "5">>, <<"2", "9">>, <<"3", "0">>,
     <<"1", "4", "4", "0">>, <<"1", "4", "4", "1">>,
     <<"3", "6", "0", "0">>, <<"3", "6", "0", "1">>}

\* The record of a command that ran: the dict it loaded, whether it called
\* save_data, what was typed, how many reminder-creation requests it sent,
\* and whether it ended in an uncaught exception.
Ran(command, outcome, raised, before, saved, inputs, requests) ==
    [op |-> "ran", command |-> command, outcome |-> outcome, raised |-> raised,
     before |-> before, saved |-> saved, inputs |-> inputs,
     requests |-> requests]

LoopInit ==
    /\ file = NoFile
    /\ today = 1
    /\ reminders = <<>>
    /\ call = [op |-> "prompt"]

LoopAdd ==
    /\ AtPrompt
    /\ \E name \in {<<>>, LoopName}, r \in LoopFormats :
          LET res == add_habit(Data, name, Formatted(name, r))
          IN  /\ Persist(res)
              /\ call' = Ran("new", res.outcome, FALSE, Data, res.save,
                             [typed |-> name, formatted |-> Formatted(name, r)], 0)
    /\ UNCHANGED <<today, reminders>>

LoopMark ==
    /\ AtPrompt
    /\ \E choice \in LoopChoices :
          LET res == mark_habit(Data, select_habit(Data, choice), today)
          IN  /\ Persist(res)
              /\ call' = Ran("mark", res.outcome, FALSE, Data, res.save,
                             [choice |-> choice], 0)
    /\ UNCHANGED <<today, reminders>>

LoopTimed ==
    /\ AtPrompt
    /\ \E choice \in LoopChoices, sc \in LoopTimerScenarios, again \in BOOLEAN :
          LET res == timed_habit(Data, select_habit(Data, choice), today,
                                 check_service(sc[1]).ret, again,
                                 start_timer(sc[2]).ret, stop_timer(sc[3]).ret)
          IN  /\ Persist(res)
              /\ call' = Ran("timed", res.outcome,
                             /\ res.outcome = "MarkedTimed"
                             /\ ElapsedReadRaises(stop_timer(sc[3]).ret),
                             Data, res.save,
                             [choice |-> choice, up |-> check_service(sc[1]).ret,
                              again |-> again, start |-> sc[2], stop |-> sc[3]],
                             0)
    /\ UNCHANGED <<today, reminders>>

\* view_habits: the statistics, then, when a habit is not completed today
\* and the reminder service is up, the offer of a reminder for them.
LoopView ==
    /\ AtPrompt
    /\ \E rc \in HealthResponses :
          LET offered == /\ ~ViewRaises(Data) /\ HasIncomplete(Data, today)
                         /\ check_service(rc).ret
          IN  \E yes \in IF offered THEN BOOLEAN ELSE {FALSE} :
              \E unit_choice \in IF yes THEN Units ELSE {"4"} :
              \E typed \in IF yes /\ unit_choice # "4" THEN Typed ELSE {<<>>} :
                 LET delay == delay_seconds(unit_choice, typed, 30)
                 IN  call' = Ran("view",
                                 IF Data = <<>> THEN "NoHabits"
                                 ELSE IF yes THEN delay.outcome ELSE "Shown",
                                 ViewRaises(Data), Data, FALSE,
                                 [yes |-> yes, unit_choice |-> unit_choice,
                                  typed |-> typed, least |-> 30],
                                 IF yes /\ delay.outcome = "Delay" THEN 1 ELSE 0)
    /\ UNCHANGED <<file, today, reminders>>

LoopEdit ==
    /\ AtPrompt
    /\ \E choice \in LoopChoices, new \in {<<>>, LoopName, <<"Y", "o", "g", "a">>},
          r \in LoopFormats :
          LET res == edit_habit(Data, select_habit(Data, choice), new,
                                Formatted(new, r))
          IN  /\ Persist(res)
              /\ call' = Ran("edit", res.outcome, FALSE, Data, res.save,
                             [choice |-> choice, new |-> new,
                              formatted |-> Formatted(new, r)], 0)
    /\ UNCHANGED <<today, reminders>>

LoopRemove ==
    /\ AtPrompt
    /\ \E choice \in LoopChoices, sure \in BOOLEAN, typed \in DeleteAnswers :
          LET res == remove_habit(Data, select_habit(Data, choice), sure, typed)
          IN  /\ Persist(res)
              /\ call' = Ran("remove", res.outcome, FALSE, Data, res.save,
                             [choice |-> choice], 0)
    /\ UNCHANGED <<today, reminders>>

\* setup_reminders, option 1: a one-time reminder for the habit selected.
LoopRemindOnce ==
    /\ AtPrompt
    /\ \E choice \in LoopChoices :
          LET name == select_habit(Data, choice)
              found == name # <<>> /\ HasKey(Data, name)
          IN  \E unit_choice \in IF found THEN Units ELSE {"4"} :
              \E typed \in IF found /\ unit_choice # "4" THEN Typed ELSE {<<>>} :
                 LET delay == delay_seconds(unit_choice, typed, 10)
                 IN  call' = Ran("remind",
                                 IF Data = <<>> THEN "NoHabits"
                                 ELSE IF ~found THEN "Cancelled"
                                 ELSE delay.outcome,
                                 FALSE, Data, FALSE,
                                 [option |-> "1", choice |-> choice,
                                  unit_choice |-> unit_choice, typed |-> typed,
                                  least |-> 10],
                                 IF found /\ delay.outcome = "Delay" THEN 1 ELSE 0)
    /\ UNCHANGED <<file, today, reminders>>

\* setup_reminders, option 2: create_daily_reminder sends its second
\* request unless the first one raised.
LoopRemindDaily ==
    /\ AtPrompt
    /\ \E choice \in LoopChoices :
          LET name == select_habit(Data, choice)
              found == name # <<>> /\ HasKey(Data, name)
          IN  \E typed \in IF found THEN Typed ELSE {<<>>} :
              \E r1 \in IF found /\ daily_hours(typed).outcome = "Delay"
                        THEN {Timeout, Created} ELSE {Timeout} :
                 call' = Ran("remind",
                             IF ~found THEN "Cancelled"
                             ELSE daily_hours(typed).outcome,
                             FALSE, Data, FALSE,
                             [option |-> "2", choice |-> choice, typed |-> typed],
                             IF ~found \/ daily_hours(typed).outcome # "Delay"
                             THEN 0 ELSE IF r1.timeout THEN 1 ELSE 2)
    /\ UNCHANGED <<file, today, reminders>>

\* setup_reminders when the service is down, and its options 3, 4 (which
\* read the list of reminders) and 5.
LoopRemindList ==
    /\ AtPrompt
    /\ \E rc \in HealthResponses, option \in {"3", "4", "5"}, rl \in LoopListings :
          call' = IF ~check_service(rc).ret
                  THEN Ran("remind", "ServiceUnavailable", FALSE, Data, FALSE,
                           [option |-> "0"], 0)
                  ELSE Ran("remind", "Listed",
                           option # "5" /\ ListingRaises(get_all_reminders(rl).ret),
                           Data, FALSE, [option |-> option], 0)
    /\ UNCHANGED <<file, today, reminders>>

LoopDo ==
    /\ AtPrompt
    /\ \E rs \in {<<Timeout, Timeout>>, <<Up, FiredListing>>},
          option \in {<<"1">>, <<"2">>, <<"3">>} :
          LET fired_reminders == FiredReminders(rs[1], rs[2])
              matched_habits ==
                  MatchedHabits(UniqueHabits(AllHabits(fired_reminders)), Keys(Data))
          IN  IF fired_reminders = <<>>
              THEN /\ call' = Ran("do", "NoFiredReminders", FALSE, Data, FALSE,
                                  [option |-> <<>>], 0)
                   /\ UNCHANGED file
              ELSE \E habit_choice \in IF Len(matched_habits) > 1 /\ option # <<"3">>
                                      THEN {<<"1">>, <<"3">>, <<"x">>}
                                      ELSE {<<>>} :
                   \E sc \in IF option = <<"2">> THEN LoopTimerScenarios
                             ELSE {<<Timeout, Timeout, Timeout>>} :
                      LET res == do_reminded_habit(Data, fired_reminders, option,
                                     habit_choice, today,
                                     check_service(sc[1]).ret,
                                     start_timer(sc[2]).ret,
                                     stop_timer(sc[3]).ret)
                      IN  /\ Persist(res)
                          /\ call' = Ran("do", res.outcome,
                                         /\ res.outcome = "MarkedTimed"
                                         /\ ElapsedFormattedRaises(
                                                stop_timer(sc[3]).ret),
                                         Data, res.save,
                                         [option |-> option,
                                          habit_choice |-> habit_choice,
                                          matched_habits |-> matched_habits], 0)
    /\ UNCHANGED <<today, reminders>>

\* about() asks the three health checks; a command that is not in the
\* mapping gets "I didn't understand that command".
LoopAbout ==
    /\ AtPrompt
    /\ \E command \in {"about", "unknown"} :
          call' = Ran(command, "Shown", FALSE, Data, FALSE, [none |-> TRUE], 0)
    /\ UNCHANGED <<file, today, reminders>>

LoopQuit ==
    /\ AtPrompt
    /\ \E command \in {"q", "quit", "exit"} :
          call' = [op |-> "exited", command |-> command]
    /\ UNCHANGED <<file, today, reminders>>

\* The command returned: `continue`, and the while loop prompts again.
LoopPrompt ==
    /\ call.op = "ran" /\ ~call.raised
    /\ call' = [op |-> "prompt"]
    /\ UNCHANGED <<file, today, reminders>>

LoopNext ==
    \/ LoopAdd \/ LoopMark \/ LoopTimed \/ LoopView \/ LoopEdit \/ LoopRemove
    \/ LoopRemindOnce \/ LoopRemindDaily \/ LoopRemindList
    \/ LoopDo \/ LoopAbout \/ LoopQuit \/ LoopPrompt

SpecLoop == LoopInit /\ [][LoopNext]_vars

\* C16: no command ends in an uncaught exception, whatever the services
\* answer and the user types, so every command that ran is followed by the
\* prompt; and the process has left the loop only after q, quit or exit.
C16_EveryCommandReturnsToThePrompt ==
    /\ call.op = "ran" => ~call.raised
    /\ call.op = "exited" => call.command \in {"q", "quit", "exit"}

\* What C17 calls a validation failure, said without the code's tests.
\* The number typed is no number, or lies outside the range of its unit.
BadDelay(unit_choice, typed, least) ==
    \/ ~ParseInt(typed).ok
    \/ unit_choice = "1" /\ ParseInt(typed).val \notin least..3600
    \/ unit_choice = "2" /\ ParseInt(typed).val \notin 1..1440
    \/ unit_choice = "3" /\ ParseInt(typed).val \notin 1..24

\* The habit number or name typed is not in the store.
NotInStore(data, choice) ==
    IF IsDigits(choice) THEN IntOf(choice) \notin 1..Len(data)
    ELSE ~HasKey(data, choice)

\* The command of the call record met a validation failure.
ValidationFailed ==
    /\ call.op = "ran"
    /\ \/ /\ call.command = "remind" /\ call.inputs.option = "1"
          /\ \/ NotInStore(call.before, call.inputs.choice)
             \/ /\ call.inputs.unit_choice \in {"1", "2", "3"}
                /\ BadDelay(call.inputs.unit_choice, call.inputs.typed, 10)
       \/ /\ call.command = "remind" /\ call.inputs.option = "2"
          /\ \/ NotInStore(call.before, call.inputs.choice)
             \/ BadDelay("3", call.inputs.typed, 10)
       \/ /\ call.command = "view" /\ call.inputs.yes
          /\ call.inputs.unit_choice \in {"1", "2", "3"}
          /\ BadDelay(call.inputs.unit_choice, call.inputs.typed, 30)
       \/ /\ call.command = "new"
          /\ HasKey(call.before, call.inputs.formatted)
       \/ /\ call.command \in {"mark", "timed", "edit", "remove"}
          /\ NotInStore(call.before, call.inputs.choice)
       \/ /\ call.command = "edit"
          /\ ~NotInStore(call.before, call.inputs.choice)
          /\ call.inputs.formatted
                 # select_habit(call.before, call.inputs.choice)
          /\ HasKey(call.before, call.inputs.formatted)
       \/ /\ call.command = "do" /\ call.inputs.option \in {<<"1">>, <<"2">>}
          /\ Len(call.inputs.matched_habits) > 1
          /\ \/ ~IsDigits(call.inputs.habit_choice)
             \/ IntOf(call.inputs.habit_choice)
                    \notin 1..Len(call.inputs.matched_habits)

\* C17: a command that meets a validation failure (a reminder delay out of
\* range, a number that is no number, a duplicate name, a habit name or
\* number that is not in the store) leaves the persisted store as it was
\* and sends no reminder-creation request.
C17_ValidationFailureChangesNothing ==
    ValidationFailed =>
        /\ ~call.saved
        /\ Data = call.before
        /\ call.requests = 0

\* C17's case: a delay out of range typed for a habit that is in the store.
C17_Witness ==
    /\ ValidationFailed
    /\ call.command = "remind" /\ call.inputs.option = "1"
    /\ call.outcome = "OutOfRange"
    /\ call.inputs.typed = <<"3", "6", "0", "1">>
    /\ call.before # <<>>
    /\ call.requests = 0 /\ Data = call.before

\* A request of create_daily_reminder that the service accepted: it was
\* answered 201 with an object whose success is true.
AcceptedLeg(r) ==
    /\ ~r.timeout
    /\ r.status = 201
    /\ IsObject(r.body)
    /\ "success" \in DOMAIN r.body
    /\ r.body.success

\* C18: create_daily_reminder returns True whenever at least one of its two
\* requests was accepted (201 with success true), whatever happened to the
\* other request (rejected, timed out, or answered with a malformed body).
C18_DailyTrueWhenEitherAccepted ==
    (/\ call.op = "gateway"
     /\ call.gw = "create_daily_reminder"
     /\ \E i \in 1..Len(call.resps) : AcceptedLeg(call.resps[i]))
        => call.out.ret = TRUE

\* The timer service reported a successful start: an object with success
\* true and a timer that has an id.
SuccessfulStart(r) ==
    /\ ~r.timeout
    /\ IsObject(r.body)
    /\ "success" \in DOMAIN r.body /\ r.body.success
    /\ "timer" \in DOMAIN r.body /\ "id" \in DOMAIN r.body.timer

\* The same of a stop, with its elapsedTime payload.
SuccessfulStop(r) ==
    /\ ~r.timeout
    /\ IsObject(r.body)
    /\ "success" \in DOMAIN r.body /\ r.body.success
    /\ "timer" \in DOMAIN r.body /\ "elapsedTime" \in DOMAIN r.body.timer

\* timed_habit got past the selection of a habit and the same-day question.
TimedConfirmed ==
    /\ call.op = "ran" /\ call.command = "timed"
    /\ call.inputs.up
    /\ ~NotInStore(call.before, call.inputs.choice)
    /\ \/ call.inputs.again
       \/ ~CompletedToday(
              Get(call.before, select_habit(call.before, call.inputs.choice)),
              today)

\* C19: in timed_habit, once the habit is selected and a same-day override
\* confirmed, exactly one entry dated today is appended if and only if the
\* timer service reported a successful start, whatever the timer id; the
\* entry's duration is the elapsedTime payload of a successful stop,
\* unmodified, and None if the stop failed; a failed start appends nothing.
C19_TimedAppendsIffStarted ==
    TimedConfirmed =>
        LET name == select_habit(call.before, call.inputs.choice)
            duration == IF SuccessfulStop(call.inputs.stop)
                        THEN call.inputs.stop.body.timer.elapsedTime
                        ELSE None
        IN  IF SuccessfulStart(call.inputs.start)
            THEN Data = AppendEntry(call.before, name,
                                    Entry(DateStr(today), duration))
            ELSE Data = call.before

\* a is a prefix of b
IsPrefix(a, b) == Len(a) <= Len(b) /\ SubSeq(b, 1, Len(a)) = a

\* The command of the call record removed or renamed the habit n.
RemovedOrRenamed(n) ==
    \/ call.op = "remove" /\ call.name = n /\ call.outcome = "Removed"
    \/ call.op = "edit" /\ call.old = n /\ call.outcome = "Renamed"

\* C20: entry lists are append-only: a habit that the command neither
\* removed nor renamed is still in the store and its entry list before the
\* command is a prefix of its list after it; a completion command (mark,
\* timed, do) appends at most one entry, and only to the selected habit.
C20_EntryListsAppendOnly ==
    (call.op \in StoreCommands /\ "before" \in DOMAIN call) =>
        LET after == Data
        IN  /\ \A k \in 1..Len(call.before) :
                  LET n == call.before[k].name
                  IN  ~RemovedOrRenamed(n) =>
                         /\ HasKey(after, n)
                         /\ IsPrefix(call.before[k].entries, Get(after, n))
            /\ call.op \in {"mark", "timed", "do"} =>
                  /\ Keys(after) = Keys(call.before)
                  /\ \A k \in 1..Len(after) :
                        Len(after[k].entries)
                            <= Len(call.before[k].entries)
                                 + (IF after[k].name = call.name THEN 1 ELSE 0)

\* C20's case: a completion appended to a list that had an entry already,
\* in a store with another habit.
C20_Witness ==
    /\ call.op = "mark" /\ call.outcome = "Marked"
    /\ Len(call.before) > 1
    /\ Get(call.before, call.name) # <<>>
    /\ Get(Data, call.name)
          = Append(Get(call.before, call.name), Entry(DateStr(today), None))

(***************************************************************************)
(* Reminders from their creation to the 'do' command: the store holds its  *)
(* habits from the start, setup_reminders creates reminders for them, the  *)
(* service fires them, and the 'do' command reads the fired ones, marks a  *)
(* habit and offers to clear them. call.held is the list the service held  *)
(* when the command began.                                                 *)
(***************************************************************************)
\* The most reminders the service holds at once here.
MaxHeld == 2

\* Habit names: two that differ in letter case only, one with a comma, one
\* with a colon.
RoundNames ==
    {<<"R", "u", "n">>, <<"r", "u", "n">>, <<"k", ",", "m">>, <<"x", ":", "y">>}

RoundStores ==
    {StoreOfKeys(k) : k \in {s \in UNION {[1..n -> RoundNames] : n \in 1..MaxHabits} :
                                NoDuplicates(s)}}

\* The message of a reminder that another client of the service created.
OtherMessage == <<"D", "e", "n", "t", "i", "s", "t">>

RoundInit ==
    /\ file \in {Saved(data) : data \in RoundStores}
    /\ today = 1
    /\ reminders = <<>>
    /\ call = [op |-> "prompt"]

\* setup_reminders, option 1, for a habit of the store and a delay in range;
\* the service accepts the request.
RoundRemindOnce ==
    /\ AtPrompt
    /\ \E choice \in RoundNames :
          LET data == Data
              name == select_habit(data, choice)
          IN  /\ HasKey(data, name)
              /\ reminders' = Accept(reminders, Created, ReminderMessage(name))
              /\ Len(reminders') <= MaxHeld
              /\ call' = [op |-> "remind"]
    /\ UNCHANGED <<file, today>>

\* setup_reminders, option 2: the one-time reminder is accepted, the
\* recurring one is accepted or its request times out.
RoundRemindDaily ==
    /\ AtPrompt
    /\ \E choice \in RoundNames, r2 \in {Timeout, Created} :
          LET data == Data
              name == select_habit(data, choice)
              r1 == Created
          IN  /\ HasKey(data, name)
              /\ reminders' = Accept(Accept(reminders, r1, ReminderMessage(name)),
                                     r2, ReminderMessage(name))
              /\ Len(reminders') <= MaxHeld
              /\ call' = [op |-> "daily"]
    /\ UNCHANGED <<file, today>>

\* Another client of the reminder service creates a reminder of its own.
RoundOther ==
    /\ AtPrompt
    /\ reminders' = Accept(reminders, Created, OtherMessage)
    /\ Len(reminders') <= MaxHeld
    /\ UNCHANGED <<file, today, call>>

\* The 'do' command of main(): fired_reminders, do_reminded_habit and the
\* answer to "Clear fired reminders for this habit?".
RoundDo ==
    /\ AtPrompt
    /\ LET data == Data
       IN  \E rs \in {<<Timeout, Timeout>>, <<Up, Listing>>} :
              LET fired_reminders == FiredReminders(rs[1], rs[2])
                  matched_habits ==
                      MatchedHabits(UniqueHabits(AllHabits(fired_reminders)),
                                    Keys(data))
              IN  IF fired_reminders = <<>>
                  THEN /\ call' = [op |-> "do", outcome |-> "NoFiredReminders",
                                   before |-> data, held |-> reminders,
                                   listed |-> ~rs[1].timeout,
                                   fired_reminders |-> <<>>,
                                   matched_habits |-> <<>>,
                                   name |-> <<>>, cleared |-> FALSE]
                       /\ UNCHANGED <<file, reminders>>
                  ELSE \E option \in {<<"1">>, <<"2">>, <<"3">>} :
                       \E habit_choice \in IF Len(matched_habits) > 1
                                              /\ option # <<"3">>
                                           THEN {<<"1">>, <<"2">>} ELSE {<<>>} :
                       \E sc \in IF option = <<"2">>
                                 THEN {<<Up, Started(1), Stopped(Elapsed1)>>}
                                 ELSE {<<Timeout, Timeout, Timeout>>} :
                          LET res == do_reminded_habit(data, fired_reminders,
                                         option, habit_choice, today,
                                         check_service(sc[1]).ret,
                                         start_timer(sc[2]).ret,
                                         stop_timer(sc[3]).ret)
                          IN  \E clear \in IF res.cleanup THEN BOOLEAN ELSE {FALSE} :
                              \E rd \in IF clear THEN HealthResponses ELSE {Timeout} :
                                 /\ Persist(res)
                                 /\ reminders' =
                                       IF clear /\ ~rd.timeout
                                       THEN Unfired(reminders) ELSE reminders
                                 /\ call' = [op |-> "do", outcome |-> res.outcome,
                                             before |-> data, held |-> reminders,
                                             listed |-> TRUE,
                                             fired_reminders |-> fired_reminders,
                                             matched_habits |-> matched_habits,
                                             name |-> res.name, cleared |-> clear]
    /\ UNCHANGED today

RoundNext ==
    \/ RoundRemindOnce \/ RoundRemindDaily \/ RoundOther \/ ReminderFires
    \/ RoundDo \/ Prompt

SpecRound == RoundInit /\ [][RoundNext]_vars

\* The message of a reminder mentions the habit, in any letter case.
RefersTo(message, name) == Contains(Lower(message), Lower(name))

\* C21: after a habit is completed through the 'do' command, answering yes
\* to "Clear fired reminders for this habit?" deletes only fired reminders
\* that refer to the completed habit: a fired reminder of another habit, or
\* of no habit, is still held by the reminder service.
C21_ClearKeepsOtherFiredReminders ==
    (call.op = "do" /\ call.cleared /\ call.name # <<>>) =>
        \A i \in 1..Len(call.held) :
           (call.held[i].fired /\ ~RefersTo(call.held[i].message, call.name))
              => InSeq(call.held[i], reminders)

\* The fired reminders the service held when 'do' began are those created
\* for the habit H by the reminder flows, and no other.
OnlyFiredFor(H) ==
    /\ \E i \in 1..Len(call.held) :
          call.held[i].fired /\ call.held[i].message = ReminderMessage(H)
    /\ \A i \in 1..Len(call.held) :
          call.held[i].fired => call.held[i].message = ReminderMessage(H)

\* C22: a reminder created for a tracked habit H by the one-time or the
\* daily flow, once fired, passes get_fired_habit_reminders and is resolved
\* by do_reminded_habit to exactly H (not to no habit, not to another
\* tracked habit), also when H contains a comma or a colon or when another
\* tracked name differs from H in letter case only.
C22_FiredReminderResolvesToItsHabit ==
    (call.op = "do" /\ call.listed) =>
        \A k \in 1..Len(call.before) :
           OnlyFiredFor(call.before[k].name) =>
              /\ InSeq(ReminderMessage(call.before[k].name), call.fired_reminders)
              /\ call.matched_habits = <<call.before[k].name>>

====
